---- MODULE Spec2Model ----
(***************************************************************************)
(* A model of the syntax highlighter of ssgen (src/src/prettier.ts):       *)
(* metadata decoding, the theme's class-name map, grammar-tag resolution,  *)
(* the packed-metadata lookup, segment merging and rendering, and          *)
(* Highlighter.highlightText.                                              *)
(*                                                                         *)
(* Conventions.  A JavaScript string is a sequence of chunks, each chunk a *)
(* TLA+ string: a character, a character reference, a fixed piece of       *)
(* markup, or a digit of a number rendered in decimal.  Concatenation is   *)
(* \o, so "mtk" + 12 is <<"mtk", "1", "2">>.  A JavaScript array index i   *)
(* is the TLA+ index i + 1.  A 32-bit value is held as its int32 image     *)
(* (what ToInt32 gives the bitwise operators).                             *)
(***************************************************************************)
EXTENDS Integers, Sequences, FiniteSets, TLC

VARIABLES
    pc,             \* position of the operation under way
    packed,         \* decode: the bit fields the metadata was packed from
    metadata,       \* decode: the packed 32-bit metadata (int32 image)
    decoded,        \* decode: the DecodedTokenMeta returned
    tokens,         \* lookup: the packed stream, offset and metadata alternating
    position,       \* lookup: the character position looked up
    meta,           \* lookup: the metadata returned
    themeFile,      \* the parsed theme document at pathToTheme
    classNameMap,   \* Highlighter.classNameMap: the entries of the Map, in order
    colorMap,       \* Highlighter.colorMap: the tokenizer's colour table
    tag,            \* syntaxName: the tag of the latest call
    grammarKey,     \* syntaxName: what the latest call returned
    console,        \* the messages written by console.log, in order
    line,           \* render: the line of text
    segments,       \* render: the ParsedLine objects of the array passed in
    mergedSegments, \* render: the array merged into, as indices of segments
    previousSegment,\* render: the accumulator, an index of segments or Null
    visited,        \* render: how many segments the forEach has visited
    highlightedLine,\* render: the HTML returned
    text,           \* highlightText: the lines passed in
    language,       \* highlightText: the grammar key passed in
    lineIndex,      \* highlightText: i, the index of the next line
    ruleStack,      \* highlightText: the rule stack handed to the tokenizer
    binary,         \* highlightText: the result of the latest tokenizeLine2
    full,           \* highlightText: the tokens of the latest tokenizeLine
    output,         \* highlightText: the HTML of the lines done
    html,           \* highlightText: the string returned
    calls,          \* the tokenizer calls of the highlightText under way
    firstPass,      \* merge twice: what the first mergeConsecutiveSegments returned
    secondPass,     \* merge twice: what the second one returned
    filePath,       \* calculateOutputPath: its argument
    newPath,        \* calculateOutputPath: what it returned
    grammar,        \* concurrent calls: the grammar the registry holds
    callTexts,      \* concurrent calls: the snippet of each call
    callState,      \* concurrent calls: where each call stands
    results,        \* concurrent calls: the string each call returned
    overtaken,      \* concurrent calls: the calls that were suspended while another ran
    plan,           \* Generator: the posts getPostPaths gives each run
    broken,         \* Generator: the posts whose code block names a grammar that fails to load
    runPc,          \* Generator: where each run() stands
    postState,      \* Generator: where renderMarkdownFile stands, by run and post
    renderedPosts,  \* Generator: the keys of this.renderedPosts
    written,        \* Generator: the output files written, by run and post
    loadedBy,       \* Generator: the run whose loadTheme assigned the theme state
    lastRead        \* Generator: the theme state the last highlightText loop read

decodeVars == <<packed, metadata, decoded>>
lookupVars == <<tokens, position, meta>>
themeVars == <<themeFile, classNameMap, colorMap>>
resolveVars == <<tag, grammarKey, console>>
renderVars == <<line, segments, mergedSegments, previousSegment, visited, highlightedLine>>
highlightVars ==
    <<text, language, lineIndex, ruleStack, binary, full, output, html, calls>>
remergeVars == <<firstPass, secondPass>>
pathVars == <<filePath, newPath>>
concurrentVars == <<grammar, callTexts, callState, results, overtaken>>
generatorVars ==
    <<plan, broken, runPc, postState, renderedPosts, written, loadedBy, lastRead>>
otherVars == <<remergeVars, pathVars, concurrentVars, generatorVars>>
vars ==
    <<pc, decodeVars, lookupVars, themeVars, resolveVars, renderVars,
      highlightVars, otherVars>>

(***************************************************************************)
(* JavaScript values                                                       *)
(***************************************************************************)

\* The value a read outside an array gives.  Indices are never negative, and
\* no packed word of the inputs has this int32 image (0xFFFFFFFE).
Undefined == -2

\* array[i] for a JavaScript index i.
At(arr, i) == IF i >= 0 /\ i < Len(arr) THEN arr[i + 1] ELSE Undefined

DigitChars == <<"0", "1", "2", "3", "4", "5", "6", "7", "8", "9">>

\* String(n) for a natural number n.
RECURSIVE NumberToString(_)
NumberToString(n) ==
    IF n < 10 THEN <<DigitChars[n + 1]>>
    ELSE NumberToString(n \div 10) \o <<DigitChars[(n % 10) + 1]>>

\* x & y on two's complement operands, from the low bit up: 0 & y is 0 and
\* -1 & y is y.
RECURSIVE BitAnd(_, _)
BitAnd(x, y) ==
    IF x = 0 \/ y = 0 THEN 0
    ELSE IF x = -1 THEN y
    ELSE IF y = -1 THEN x
    ELSE (x % 2) * (y % 2) + 2 * BitAnd(x \div 2, y \div 2)

\* x >>> n for an int32 x and 2 <= n <= 31.
UnsignedShiftRight(x, n) ==
    IF x >= 0 THEN x \div (2 ^ n) ELSE (x \div (2 ^ n)) + 2 ^ (32 - n)

(***************************************************************************)
(* Metadata decoding                                                       *)
(***************************************************************************)

FontStyleItalic == 1
FontStyleBold == 2
FontStyleUnderline == 4

FONT_STYLE_MASK == 14336        \* 0b00000000000000000011100000000000
FOREGROUND_MASK == 8372224      \* 0b00000000011111111100000000000000
FONT_STYLE_OFFSET == 11
FOREGROUND_OFFSET == 14

\* The documented binary format: bbbb bbbb bfff ffff ffFF FTTT LLLL LLLL.
\* The result is the int32 image of the unsigned word.
Pack(p) ==
    p.language
    + p.tokenType * (2 ^ 8)
    + p.fontStyle * (2 ^ 11)
    + p.foreground * (2 ^ 14)
    + (IF p.background >= 256 THEN p.background - 512 ELSE p.background)
        * (2 ^ 23)

\* The int32 a bitwise operator makes of its operand: 0 of undefined.
ToInt32(m) == IF m = Undefined THEN 0 ELSE m

getFontStyle(m) ==
    UnsignedShiftRight(BitAnd(ToInt32(m), FONT_STYLE_MASK), FONT_STYLE_OFFSET)

\* The foreground read without its mask.
getForegroundUnmasked(m) == UnsignedShiftRight(ToInt32(m), FOREGROUND_OFFSET)

getForeground(m) ==
    UnsignedShiftRight(BitAnd(ToInt32(m), FOREGROUND_MASK), FOREGROUND_OFFSET)

getTokenDataFromMetadata(m) ==
    LET foreground == getForeground(m)
        fontStyle == getFontStyle(m)
        italic == BitAnd(fontStyle, FontStyleItalic) # 0
        bold == BitAnd(fontStyle, FontStyleBold) # 0
        underline == BitAnd(fontStyle, FontStyleUnderline) # 0
    IN  [classNames |->
            <<<<"mtk">> \o NumberToString(foreground)>>
            \o (IF italic THEN <<<<"mtki">>>> ELSE <<>>)
            \o (IF bold THEN <<<<"mtkb">>>> ELSE <<>>)
            \o (IF underline THEN <<<<"mtku">>>> ELSE <<>>),
         bold |-> bold,
         italic |-> italic,
         underline |-> underline,
         foreground |-> foreground]

\* The bit fields the decoder is run on: every font style, and the boundary
\* values of each of the other fields.
PackedInputs ==
    [language : {0, 255},
     tokenType : {0, 7},
     fontStyle : 0 .. 7,
     foreground : {0, 1, 255, 256, 511},
     background : {0, 255, 256, 511}]

NoResult == "none"

InitDecode ==
    /\ packed \in PackedInputs
    /\ metadata = Pack(packed)
    /\ decoded = NoResult

IdleDecode ==
    /\ packed = NoResult
    /\ metadata = 0
    /\ decoded = NoResult

Decode ==
    /\ pc = "decode"
    /\ decoded' = getTokenDataFromMetadata(metadata)
    /\ pc' = "decoded"
    /\ UNCHANGED <<packed, metadata>>

(***************************************************************************)
(* The packed-metadata lookup                                              *)
(***************************************************************************)

last(arr) == At(arr, Len(arr) - 1)

\* a < b in JavaScript: false when either side is undefined.
Less(a, b) == a # Undefined /\ b # Undefined /\ a < b

RECURSIVE MetaScanInclusive(_, _, _)
MetaScanInclusive(toks, p, i) ==
    IF i < Len(toks)
    THEN IF ~Less(p, At(toks, i)) /\ ~Less(At(toks, i + 2), p)
              /\ At(toks, i + 2) # Undefined
         THEN At(toks, i + 1)
         ELSE MetaScanInclusive(toks, p, i + 2)
    ELSE last(toks)

\* The lookup with the interval closed at its end (position <= end).
getMetaAtPositionInclusive(toks, p) == MetaScanInclusive(toks, p, 0)

\* The loop of getMetaAtPosition from index i on.
RECURSIVE MetaScan(_, _, _)
MetaScan(toks, p, i) ==
    IF i < Len(toks)
    THEN LET start == At(toks, i)
             end == At(toks, i + 2)
         IN  IF ~Less(p, start) /\ Less(p, end)
             THEN At(toks, i + 1)
             ELSE MetaScan(toks, p, i + 2)
    ELSE last(toks)

getMetaAtPosition(toks, p) == MetaScan(toks, p, 0)

MaxPairs == 3
MaxOffset == 3

\* Packed words the tokenizer hands out: a colour id with a font style.
MetaWord(fg, fontStyle) ==
    Pack([language |-> 1, tokenType |-> 0, fontStyle |-> fontStyle,
          foreground |-> fg, background |-> 2])

MetaSamples == {MetaWord(1, 0), MetaWord(2, 0), MetaWord(2, 2)}

\* offs[1], meta[1], offs[2], meta[2], ...
Interleave(offs, metas) ==
    [k \in 1 .. 2 * Len(offs) |->
        IF k % 2 = 1 THEN offs[(k + 1) \div 2] ELSE metas[k \div 2]]

\* Every stream of at most MaxPairs pairs with strictly increasing offsets.
PackedStreams ==
    UNION {
        { Interleave(offs, metas) :
            offs \in { o \in [1 .. n -> 0 .. MaxOffset] :
                        \A j \in 1 .. n - 1 : o[j] < o[j + 1] },
            metas \in [1 .. n -> MetaSamples] }
        : n \in 0 .. MaxPairs }

InitLookup ==
    /\ tokens \in PackedStreams
    /\ position \in 0 .. MaxOffset + 1
    /\ meta = NoResult

IdleLookup ==
    /\ tokens = <<>>
    /\ position = 0
    /\ meta = NoResult

Lookup ==
    /\ pc = "lookup"
    /\ meta' = getMetaAtPosition(tokens, position)
    /\ pc' = "looked"
    /\ UNCHANGED <<tokens, position>>

(***************************************************************************)
(* The theme and its class-name map                                        *)
(***************************************************************************)

\* undefined where a string or an object is expected: a missing property,
\* a Map.get miss, a field never assigned.
UndefinedValue == <<"undefined">>

\* obj[key] of an object held as a function from its own keys.
Get(obj, key) == IF key \in DOMAIN obj THEN obj[key] ELSE UndefinedValue

\* a ?? b
Nullish(a, b) == IF a = UndefinedValue THEN b ELSE a

\* if (s) for a string or undefined
Truthy(s) == s # UndefinedValue /\ s # <<>>

UpperChar(c) ==
    CASE c = "a" -> "A" [] c = "b" -> "B" [] c = "c" -> "C"
      [] c = "d" -> "D" [] c = "e" -> "E" [] c = "f" -> "F"
      [] OTHER -> c

toUpperCase(s) == [k \in 1 .. Len(s) |-> UpperChar(s[k])]

DefaultForeground == <<"#", "0", "0", "0", "0", "0", "0">>

\* The entry both createClassNameMap and convertThemeToRawTheme put first.
defaultTokenColors(theme) ==
    [settings |->
        [foreground |->
            Nullish(Get(theme.colors, <<"editor.foreground">>), DefaultForeground)]]

\* Map.has and Map.get on the ordered entries of a Map.
MapHas(map, key) == \E k \in 1 .. Len(map) : map[k].key = key

MapGet(map, key) ==
    IF key # UndefinedValue /\ MapHas(map, key)
    THEN map[CHOOSE k \in 1 .. Len(map) : map[k].key = key].value
    ELSE UndefinedValue

\* The key with the letter case the theme wrote it in.
ColorKeyAsWritten(fg) == fg

\* const color = token.settings.foreground.toUpperCase()
ColorKey(fg) == toUpperCase(fg)

\* The forEach of createClassNameMap over the entries left.
RECURSIVE ClassNameFold(_, _, _)
ClassNameFold(entries, map, colorIndex) ==
    IF entries = <<>> THEN map
    ELSE LET fg == Head(entries).settings.foreground
         IN  IF Truthy(fg) /\ ~MapHas(map, ColorKey(fg))
             THEN ClassNameFold(
                    Tail(entries),
                    Append(map, [key |-> ColorKey(fg),
                                 value |-> <<"mtk">> \o NumberToString(colorIndex)]),
                    colorIndex + 1)
             ELSE ClassNameFold(Tail(entries), map, colorIndex)

createClassNameMap(theme) ==
    ClassNameFold(<<defaultTokenColors(theme)>> \o theme.tokenColors, <<>>, 0)

convertThemeToRawTheme(theme) ==
    [name |-> theme.name,
     settings |-> <<defaultTokenColors(theme)>> \o theme.tokenColors]

\* The colours a raw theme gives to foregrounds, as the tokenizer keys them.
RawForegrounds(rawTheme) ==
    { toUpperCase(rawTheme.settings[k].settings.foreground) :
        k \in { j \in 1 .. Len(rawTheme.settings) :
                 Truthy(rawTheme.settings[j].settings.foreground) } }

DefaultBackground == <<"#", "F", "F", "F", "F", "F", "F">>

\* The sequences that list every element of S once.
Orderings(S) ==
    { f \in [1 .. Cardinality(S) -> S] :
        \A j, k \in 1 .. Cardinality(S) : j # k => f[j] # f[k] }

\* registry.setTheme(rawTheme); registry.getColorMap(): the colour table of
\* the tokenizer.  Index 0 is reserved; every foreground of the theme and
\* the tokenizer's default background have an id; the tokenizer chooses the
\* order.
ColorTables(rawTheme) ==
    { <<UndefinedValue>> \o order :
        order \in Orderings(RawForegrounds(rawTheme) \cup {DefaultBackground}) }

\* The ids the tokenizer packs as a foreground: those of the theme's
\* foreground colours.
ForegroundIds(table, rawTheme) ==
    { id \in 1 .. Len(table) - 1 : table[id + 1] \in RawForegrounds(rawTheme) }

MaxTokenColors == 3

Color1 == <<"#", "a", "b", "b", "2", "b", "f">>
Color1Upper == <<"#", "A", "B", "B", "2", "B", "F">>
Color2 == <<"#", "e", "0", "6", "C", "7", "5">>

\* settings.foreground of a tokenColors entry: missing, empty or a colour.
TokenForegrounds ==
    {UndefinedValue, <<>>, Color1, Color1Upper, Color2, DefaultForeground}

\* colors["editor.foreground"]: missing or a colour.
EditorForegrounds == {UndefinedValue, Color1, Color1Upper, Color2}

ThemeOf(editorForeground, foregrounds) ==
    [name |-> "theme",
     colors |->
        IF editorForeground = UndefinedValue THEN <<>>
        ELSE [key \in {<<"editor.foreground">>} |-> editorForeground],
     tokenColors |->
        [k \in 1 .. Len(foregrounds) |->
            [settings |-> [foreground |-> foregrounds[k]]]]]

Themes ==
    UNION {
        { ThemeOf(e, fs) :
            e \in EditorForegrounds, fs \in [1 .. n -> TokenForegrounds] }
        : n \in 0 .. MaxTokenColors }

InitTheme(themes) ==
    /\ themeFile \in themes
    /\ classNameMap = UndefinedValue
    /\ colorMap = UndefinedValue

IdleTheme ==
    /\ themeFile = UndefinedValue
    /\ classNameMap = UndefinedValue
    /\ colorMap = UndefinedValue

\* loadTheme() is called: the read of the theme file is pending.
LoadThemeCall ==
    /\ pc = "idle"
    /\ pc' = "loadTheme"
    /\ UNCHANGED themeVars

\* loadTheme() resumes with the parsed theme and runs to its end.
LoadThemeResume ==
    /\ pc = "loadTheme"
    /\ classNameMap' = createClassNameMap(themeFile)
    /\ colorMap' \in ColorTables(convertThemeToRawTheme(themeFile))
    /\ pc' = "loaded"
    /\ UNCHANGED themeFile

(***************************************************************************)
(* Grammar-tag resolution                                                  *)
(***************************************************************************)

GrammarKeyJAVASCRIPT == <<"source.js">>
GrammarKeyTYPESCRIPT == <<"source.ts">>
GrammarKeyGO == <<"source.go">>
GrammarKeyDART == <<"source.dart">>
GrammarKeyHTML == <<"text.html.basic">>
GrammarKeyCSS == <<"source.css">>
GrammarKeyTEXT == <<"text.plain">>
GrammarKeyHANDLEBARS == <<"text.html.handlebars">>
GrammarKeyYAML == <<"source.yaml">>

GrammarKeys ==
    {GrammarKeyJAVASCRIPT, GrammarKeyTYPESCRIPT, GrammarKeyGO, GrammarKeyDART,
     GrammarKeyHTML, GrammarKeyCSS, GrammarKeyTEXT, GrammarKeyHANDLEBARS,
     GrammarKeyYAML}

\* The own properties of the object literal.
extensionToGrammarKey ==
    (<<"js">> :> GrammarKeyJAVASCRIPT) @@ (<<"ts">> :> GrammarKeyTYPESCRIPT)
    @@ (<<"go">> :> GrammarKeyGO) @@ (<<"dart">> :> GrammarKeyDART)
    @@ (<<"html">> :> GrammarKeyHTML) @@ (<<"css">> :> GrammarKeyCSS)
    @@ (<<"handlebars">> :> GrammarKeyHANDLEBARS) @@ (<<"yaml">> :> GrammarKeyYAML)

\* Properties every object literal inherits from Object.prototype, with the
\* functions they hold.
ObjectPrototype ==
    (<<"constructor">> :> <<"function Object">>)
    @@ (<<"toString">> :> <<"function toString">>)
    @@ (<<"valueOf">> :> <<"function valueOf">>)

\* key in obj: own and inherited properties.
In(key, obj) == key \in DOMAIN obj \/ key \in DOMAIN ObjectPrototype

\* obj[key] through the prototype chain.
Lookup_(obj, key) ==
    IF key \in DOMAIN obj THEN obj[key] ELSE Get(ObjectPrototype, key)

UnsupportedGrammarMessage(t) ==
    <<"Unsupported grammar <">> \o t \o <<">. Falling back to plain text">>

\* Highlighter.syntaxName(tag): [result, logged], logged the messages written.
syntaxName(t) ==
    IF In(t, extensionToGrammarKey)
    THEN [result |-> Lookup_(extensionToGrammarKey, t), logged |-> <<>>]
    ELSE [result |-> GrammarKeyTEXT,
          logged |-> IF t # <<>> THEN <<UnsupportedGrammarMessage(t)>> ELSE <<>>]

Tags ==
    DOMAIN extensionToGrammarKey
    \cup {<<>>, <<"JS">>, <<"foobar">>, <<"py">>, <<"constructor">>}

MaxDiagnostics == 3

InitResolve ==
    /\ tag = UndefinedValue
    /\ grammarKey = UndefinedValue
    /\ console = <<>>

IdleResolve == InitResolve

SyntaxNameCall ==
    /\ Len(console) < MaxDiagnostics
    /\ \E t \in Tags :
        /\ tag' = t
        /\ grammarKey' = syntaxName(t).result
        /\ console' = console \o syntaxName(t).logged
    /\ UNCHANGED pc

(***************************************************************************)
(* Merging and rendering segments                                          *)
(***************************************************************************)

Null == 0

arraysAreEqual(a, b) ==
    /\ Len(a) = Len(b)
    /\ \A i \in 1 .. Len(a) : a[i] = b[i]

\* The test that merges whatever the class names are.
MergeTestEndOnly(prev, segment) == prev.end = segment.start

\* The test that merges nothing.
MergeTestNever(prev, segment) == FALSE

\* previousSegment.end === segment.start && arraysAreEqual(...)
MergeTest(prev, segment) ==
    /\ prev.end = segment.start
    /\ arraysAreEqual(prev.classNames, segment.classNames)

\* The callback without the assignment that makes a segment it appends the
\* accumulator.
MergeStepAccumulatorKept(st, idx) ==
    IF st.prev = Null
    THEN [st EXCEPT !.merged = Append(@, idx), !.prev = idx]
    ELSE IF MergeTest(st.objs[st.prev], st.objs[idx])
         THEN [st EXCEPT !.objs[st.prev].end = st.objs[idx].end]
         ELSE [st EXCEPT !.merged = Append(@, idx)]

\* One call of the forEach callback of mergeConsecutiveSegments, on the
\* object at index idx.  st holds the objects (objs), the array merged into
\* (merged, indices of objs) and previousSegment (prev).  The accumulator is
\* an object of the array passed in: extending it changes that object.
MergeStep(st, idx) ==
    IF st.prev = Null
    THEN [st EXCEPT !.merged = Append(@, idx), !.prev = idx]
    ELSE IF MergeTest(st.objs[st.prev], st.objs[idx])
         THEN [st EXCEPT !.objs[st.prev].end = st.objs[idx].end]
         ELSE [st EXCEPT !.merged = Append(@, idx), !.prev = idx]

RECURSIVE MergeFrom(_, _)
MergeFrom(st, idx) ==
    IF idx > Len(st.objs) THEN st ELSE MergeFrom(MergeStep(st, idx), idx + 1)

\* mergeConsecutiveSegments(segments): the objects after the call and the
\* array returned.
mergeConsecutiveSegments(segs) ==
    MergeFrom([objs |-> segs, merged |-> <<>>, prev |-> Null], 1)

Min(a, b) == IF a < b THEN a ELSE b

\* line.slice(start, end) for start, end >= 0.
Slice(str, start, end) ==
    LET from == Min(start, Len(str))
        to == Min(end, Len(str))
    IN  IF from < to THEN SubSeq(str, from + 1, to) ELSE <<>>

WhiteSpace == {" ", "\t", "\n"}

RECURSIVE TrimStart(_)
TrimStart(str) ==
    IF str # <<>> /\ Head(str) \in WhiteSpace THEN TrimStart(Tail(str)) ELSE str

RECURSIVE TrimEnd(_)
TrimEnd(str) ==
    IF str # <<>> /\ str[Len(str)] \in WhiteSpace
    THEN TrimEnd(SubSeq(str, 1, Len(str) - 1))
    ELSE str

\* str.trim()
Trim(str) == TrimEnd(TrimStart(str))

\* he.encode with named references, on one character.
EncodeChar(c) ==
    CASE c = "<" -> "&lt;" [] c = ">" -> "&gt;" [] c = "&" -> "&amp;"
      [] c = "\"" -> "&quot;"
      [] OTHER -> c

heEncode(str) == [j \in 1 .. Len(str) |-> EncodeChar(str[j])]

\* Array.prototype.join: undefined elements give the empty string.
RECURSIVE Join(_, _)
Join(arr, sep) ==
    IF arr = <<>> THEN <<>>
    ELSE LET first == IF Head(arr) = UndefinedValue THEN <<>> ELSE Head(arr)
         IN  IF Len(arr) = 1 THEN first
             ELSE first \o sep \o Join(Tail(arr), sep)

SpanOpen == "<span class=\""
AttrClose == "\">"
SpanClose == "</span>"

\* The callback emitting the text without the white space around it.
EmitSegmentTrimmed(str, segment) ==
    LET txt == Trim(Slice(str, segment.start, segment.end))
    IN  IF txt # <<>>
        THEN <<SpanOpen>> \o Join(segment.classNames, <<" ">>) \o <<AttrClose>>
             \o heEncode(txt) \o <<SpanClose>>
        ELSE txt

\* A span around the text whatever it is, white space too.
EmitSegmentAlwaysWrapped(str, segment) ==
    LET txt == Slice(str, segment.start, segment.end)
    IN  <<SpanOpen>> \o Join(segment.classNames, <<" ">>) \o <<AttrClose>>
        \o heEncode(txt) \o <<SpanClose>>

\* The forEach callback of codeToHTML: what one merged segment adds.
EmitSegment(str, segment) ==
    LET txt == Slice(str, segment.start, segment.end)
    IN  IF Trim(txt) # <<>>
        THEN <<SpanOpen>> \o Join(segment.classNames, <<" ">>) \o <<AttrClose>>
             \o heEncode(txt) \o <<SpanClose>>
        ELSE txt

RECURSIVE EmitFrom(_, _, _)
EmitFrom(str, merged, j) ==
    IF j > Len(merged) THEN <<>>
    ELSE EmitSegment(str, merged[j]) \o EmitFrom(str, merged, j + 1)

\* The array mergeConsecutiveSegments returns, as objects.
Returned(st) == [j \in 1 .. Len(st.merged) |-> st.objs[st.merged[j]]]

codeToHTML(str, segs) == EmitFrom(str, Returned(mergeConsecutiveSegments(segs)), 1)

MaxLineLen == 3
MaxSegments == 3
MaxSegmentEnd == 2
MaxRenderSegments == 2

Alphabet == {"a", " ", "<"}

Lines == UNION { [1 .. n -> Alphabet] : n \in 0 .. MaxLineLen }

Mtk(n) == <<"mtk">> \o NumberToString(n)

ClassLists == { <<Mtk(0)>>, <<Mtk(1)>>, <<Mtk(0), <<"mtkb">>>> }

RenderClassLists == { <<Mtk(0)>>, <<Mtk(1), <<"mtkb">>>> }

\* Ordered segment sequences: n segments that do not overlap, each within
\* 0 .. maxEnd; gaps between segments and empty segments are allowed.
SegmentSeqs(n, maxEnd, classLists) ==
    { [j \in 1 .. n |->
          [start |-> b[2 * j - 1], end |-> b[2 * j], classNames |-> c[j]]] :
        b \in { f \in [1 .. 2 * n -> 0 .. maxEnd] :
                 \A j \in 1 .. 2 * n - 1 : f[j] <= f[j + 1] },
        c \in [1 .. n -> classLists] }

InitRender(maxSegments, maxEnd, lines, classLists) ==
    /\ line \in lines
    /\ segments \in
            UNION { SegmentSeqs(n, maxEnd, classLists) : n \in 0 .. maxSegments }
    /\ mergedSegments = <<>>
    /\ previousSegment = Null
    /\ visited = 0
    /\ highlightedLine = NoResult

IdleRender ==
    /\ line = <<>>
    /\ segments = <<>>
    /\ mergedSegments = <<>>
    /\ previousSegment = Null
    /\ visited = 0
    /\ highlightedLine = NoResult

\* The forEach of mergeConsecutiveSegments visits the next segment.
MergeIteration ==
    /\ pc = "merge"
    /\ visited < Len(segments)
    /\ LET st == MergeStep([objs |-> segments, merged |-> mergedSegments,
                            prev |-> previousSegment], visited + 1)
       IN  /\ segments' = st.objs
           /\ mergedSegments' = st.merged
           /\ previousSegment' = st.prev
    /\ visited' = visited + 1
    /\ UNCHANGED <<pc, line, highlightedLine>>

\* mergeConsecutiveSegments returns mergedSegments.
MergeReturn ==
    /\ pc = "merge"
    /\ visited = Len(segments)
    /\ pc' = "merged"
    /\ UNCHANGED renderVars

\* codeToHTML(line, segments), from call to return.
Render ==
    /\ pc = "render"
    /\ LET st == mergeConsecutiveSegments(segments)
       IN  /\ segments' = st.objs
           /\ mergedSegments' = st.merged
           /\ previousSegment' = st.prev
           /\ highlightedLine' = EmitFrom(line, Returned(st), 1)
    /\ visited' = Len(segments)
    /\ pc' = "rendered"
    /\ UNCHANGED line

(***************************************************************************)
(* Highlighter.highlightText                                               *)
(***************************************************************************)

\* The rule stack of vscode-textmate that starts a snippet.
INITIAL == 0

NumRuleStacks == 2

\* The rule stacks a tokenizer call returns.
RuleStacks == 1 .. NumRuleStacks

\* colorMap[i]
ColorAt(table, i) ==
    IF table # UndefinedValue /\ i >= 0 /\ i < Len(table)
    THEN table[i + 1] ELSE UndefinedValue

\* The class names highlightText gives a token whose metadata word is m,
\* with the foreground class foregroundClass.
TokenClassNames(m, foregroundClass) ==
    LET data == getTokenDataFromMetadata(m)
    IN  <<foregroundClass>>
        \o (IF data.bold THEN <<<<"mtkb">>>> ELSE <<>>)
        \o (IF data.italic THEN <<<<"mtki">>>> ELSE <<>>)
        \o (IF data.underline THEN <<<<"mtku">>>> ELSE <<>>)

\* The foreground class taken from the decoder's own class names.
ForegroundClassOfId(map, table, m) ==
    getTokenDataFromMetadata(m).classNames[1]

\* this.classNameMap.get(this.colorMap[metadata.foreground])
ForegroundClass(map, table, m) ==
    MapGet(map, ColorAt(table, getTokenDataFromMetadata(m).foreground))

\* The body of the loop over the tokens of a line: the ParsedLine of a token.
TokenSegment(map, table, binaryTokens, token) ==
    LET m == getMetaAtPosition(binaryTokens, token.startIndex)
    IN  [start |-> token.startIndex,
         end |-> token.endIndex,
         classNames |-> TokenClassNames(m, ForegroundClass(map, table, m))]

\* The loop over the tokens of a line: segments.push for each of them.
RECURSIVE LineSegments(_, _, _, _)
LineSegments(map, table, binaryTokens, fullTokens) ==
    IF fullTokens = <<>> THEN <<>>
    ELSE <<TokenSegment(map, table, binaryTokens, Head(fullTokens))>>
         \o LineSegments(map, table, binaryTokens, Tail(fullTokens))

PreOpen == "<pre><code>"
PreClose == "</code></pre>"

\* The tokens tokenizeLine may return for a line: spans that tile it; for an
\* empty line no token or one empty token.
FullTokens(str) ==
    IF Len(str) = 0
    THEN { <<>>, <<[startIndex |-> 0, endIndex |-> 0]>> }
    ELSE UNION {
            { [j \in 1 .. n |->
                  [startIndex |-> IF j = 1 THEN 0 ELSE cut[j - 1],
                   endIndex |-> IF j = n THEN Len(str) ELSE cut[j]]] :
                cut \in { c \in [1 .. n - 1 -> 1 .. Len(str) - 1] :
                            \A j \in 1 .. n - 2 : c[j] < c[j + 1] } }
            : n \in 1 .. Len(str) }

\* The packed streams tokenizeLine2 may return with these tokens: offsets
\* that start at 0 and are starts of tokens (the spans refine the packed
\* intervals), each with a word of words.
BinaryTokens(fullTokens, words) ==
    LET starts == { fullTokens[j].startIndex : j \in 1 .. Len(fullTokens) } \cup {0}
    IN  UNION {
            { Interleave(offs, metas) :
                offs \in { o \in [1 .. n -> starts] :
                            /\ o[1] = 0
                            /\ \A j \in 1 .. n - 1 : o[j] < o[j + 1] },
                metas \in [1 .. n -> words] }
            : n \in 1 .. Cardinality(starts) }

\* The font style bits of a rule's settings.fontStyle.
FontStyleBits(settings) ==
    IF Get(settings, "fontStyle") = <<"bold">> THEN FontStyleBold
    ELSE IF Get(settings, "fontStyle") = <<"italic">> THEN FontStyleItalic
    ELSE 0

\* The words the tokenizer packs under a theme: for each rule that has a
\* foreground, the id the colour table gives that colour, with the rule's
\* font style.
ThemeWords(table, rawTheme) ==
    { MetaWord(CHOOSE id \in 1 .. Len(table) - 1 :
                    table[id + 1] = toUpperCase(rawTheme.settings[r].settings.foreground),
               FontStyleBits(rawTheme.settings[r].settings)) :
        r \in { j \in 1 .. Len(rawTheme.settings) :
                 Truthy(rawTheme.settings[j].settings.foreground) } }

MaxTextLines == 2

\* The lines of the snippets: an empty one, and one of a character that is
\* escaped followed by white space.
SampleLines == { <<>>, <<"<", " ">> }

Texts == UNION { [1 .. n -> SampleLines] : n \in 0 .. MaxTextLines }

\* A theme without editor.foreground, whose two rules name one colour in two
\* letter cases, in bold.
HighlightThemes ==
    { [name |-> "theme",
       colors |-> <<>>,
       tokenColors |->
          << [settings |-> [foreground |-> Color1, fontStyle |-> <<"bold">>]],
             [settings |-> [foreground |-> Color1Upper, fontStyle |-> <<"bold">>]] >>] }

\* The snippet the caller holds is an input; no call has been made.
InitHighlight(texts) ==
    /\ text \in texts
    /\ language = UndefinedValue
    /\ lineIndex = 0
    /\ ruleStack = INITIAL
    /\ binary = NoResult
    /\ full = NoResult
    /\ output = <<>>
    /\ html = NoResult
    /\ calls = <<>>

IdleHighlight == InitHighlight({<<>>})

\* highlightText(text, language) is called on a Highlighter whose theme is
\* loaded, and waits for registry.loadGrammar(language); a caller that
\* rebuilds a page calls it again with the same snippet.  The locals of a
\* call that returned are gone; ruleStack keeps its last value until the
\* call assigns it.
HighlightCall ==
    /\ pc \in {"loaded", "returned"}
    /\ text' = text
    /\ language' = syntaxName(<<"js">>).result
    /\ lineIndex' = 0
    /\ binary' = NoResult
    /\ full' = NoResult
    /\ output' = <<>>
    /\ html' = NoResult
    /\ calls' = <<>>
    /\ pc' = "loadGrammar"
    /\ UNCHANGED ruleStack

\* The rule stack a call starts with when it keeps the one it finds.
StartRuleStackKept == ruleStack

\* let ruleStack = INITIAL
StartRuleStack == INITIAL

\* The grammar is loaded and highlightText goes on to its loop.
GrammarLoaded ==
    /\ pc = "loadGrammar"
    /\ ruleStack' = StartRuleStack
    /\ output' = <<>>
    /\ lineIndex' = 0
    /\ pc' = "lines"
    /\ UNCHANGED <<text, language, binary, full, html, calls>>

\* One turn of the loop over the lines: both tokenizer calls, the segments,
\* codeToHTML and the step of the rule stack; words are the metadata words
\* the tokenizer may pack.
HighlightLineWith(words) ==
    /\ pc = "lines"
    /\ lineIndex < Len(text)
    /\ LET str == text[lineIndex + 1]
       IN  \E fullTokens \in FullTokens(str), next \in RuleStacks :
           \E binaryTokens \in
                BinaryTokens(fullTokens, words) :
                /\ binary' = [tokens |-> binaryTokens, ruleStack |-> next]
                /\ full' = fullTokens
                /\ calls' = calls
                        \o << [fn |-> "tokenizeLine2", line |-> lineIndex,
                               state |-> ruleStack, returned |-> next],
                              [fn |-> "tokenizeLine", line |-> lineIndex,
                               state |-> ruleStack, returned |-> next] >>
                /\ output' = Append(output,
                        codeToHTML(str, LineSegments(classNameMap, colorMap,
                                                     binaryTokens, fullTokens)))
                /\ ruleStack' = next
    /\ lineIndex' = lineIndex + 1
    /\ UNCHANGED <<pc, text, language, html>>

\* The turn of the loop with a tokenizer that keeps to the theme.
HighlightLine ==
    HighlightLineWith(ThemeWords(colorMap, convertThemeToRawTheme(themeFile)))

\* Words whose foreground id is any index up to the length of the colour
\* table: the reserved id 0, the ids of the theme's colours, the id of the
\* tokenizer's background, and the first id past the table.
AnyForegroundWords(table) == { MetaWord(id, 0) : id \in 0 .. Len(table) }

\* The turn of the loop with a tokenizer whose ids the theme state read by
\* highlightText need not resolve.
HighlightLineAnyForeground == HighlightLineWith(AnyForegroundWords(colorMap))

\* The lines wrapped with a newline after each of them.
WrapLinesTerminated(out) ==
    <<PreOpen>> \o Join([j \in 1 .. Len(out) |-> out[j] \o <<"\n">>], <<>>)
    \o <<PreClose>>

\* "<pre><code>" + output.join("\n") + "</code></pre>"
WrapLines(out) == <<PreOpen>> \o Join(out, <<"\n">>) \o <<PreClose>>

\* The loop is over: highlightText returns.
HighlightReturn ==
    /\ pc = "lines"
    /\ lineIndex = Len(text)
    /\ html' = WrapLines(output)
    /\ pc' = "returned"
    /\ UNCHANGED <<text, language, lineIndex, ruleStack, binary, full, output,
                   calls>>

(***************************************************************************)
(* mergeConsecutiveSegments run on its own result                          *)
(***************************************************************************)

MaxRemergeSegments == 3

\* The segments a caller may pass in any order: empty or one character long.
SegmentPool ==
    { sg \in [start : 0 .. MaxSegmentEnd, end : 0 .. MaxSegmentEnd,
              classNames : RenderClassLists] :
        sg.start <= sg.end /\ sg.end <= sg.start + 1 }

InitRemerge ==
    /\ segments \in UNION { [1 .. n -> SegmentPool] : n \in 0 .. MaxRemergeSegments }
    /\ firstPass = NoResult
    /\ secondPass = NoResult

IdleRemerge ==
    /\ firstPass = NoResult
    /\ secondPass = NoResult

\* mergeConsecutiveSegments(segments), from call to return.
MergeOnce ==
    /\ pc = "remerge"
    /\ LET st == mergeConsecutiveSegments(segments)
       IN  /\ segments' = st.objs
           /\ mergedSegments' = st.merged
           /\ previousSegment' = st.prev
           /\ firstPass' = Returned(st)
    /\ visited' = Len(segments)
    /\ pc' = "once"
    /\ UNCHANGED <<line, highlightedLine, secondPass>>

\* mergeConsecutiveSegments is called on the array the first call returned.
MergeTwice ==
    /\ pc = "once"
    /\ secondPass' = Returned(mergeConsecutiveSegments(firstPass))
    /\ pc' = "twice"
    /\ UNCHANGED <<renderVars, firstPass>>

(***************************************************************************)
(* calculateOutputPath                                                     *)
(***************************************************************************)

\* Paths are sequences of characters; ppath is the posix flavour of the
\* path module of Node, whose separator is the slash.
Sep == "/"

MaxPathLen == 5

PathAlphabet == {Sep, "_", "a", "."}

\* The absolute paths of up to MaxPathLen characters.
AbsolutePaths ==
    { <<Sep>> \o rest : rest \in UNION { [1 .. n -> PathAlphabet] : n \in 0 .. MaxPathLen - 1 } }

\* String.prototype.split on the separator: one more part than separators.
RECURSIVE SplitFrom(_, _, _)
SplitFrom(str, c, part) ==
    IF c > Len(str) THEN <<part>>
    ELSE IF str[c] = Sep THEN <<part>> \o SplitFrom(str, c + 1, <<>>)
    ELSE SplitFrom(str, c + 1, Append(part, str[c]))

Split(str) == SplitFrom(str, 1, <<>>)

\* normalizeString of path.posix: empty and "." segments are dropped, ".."
\* takes the segment before it away, or is dropped at the root.
RECURSIVE NormalizeParts(_, _, _, _)
NormalizeParts(parts, j, absolute, acc) ==
    IF j > Len(parts) THEN acc
    ELSE LET part == parts[j]
         IN  IF part = <<>> \/ part = <<".">>
             THEN NormalizeParts(parts, j + 1, absolute, acc)
             ELSE IF part = <<".", ".">>
             THEN IF acc # <<>> /\ acc[Len(acc)] # <<".", ".">>
                  THEN NormalizeParts(parts, j + 1, absolute, SubSeq(acc, 1, Len(acc) - 1))
                  ELSE IF absolute
                       THEN NormalizeParts(parts, j + 1, absolute, acc)
                       ELSE NormalizeParts(parts, j + 1, absolute, Append(acc, part))
             ELSE NormalizeParts(parts, j + 1, absolute, Append(acc, part))

\* ppath.normalize.
Normalize(str) ==
    IF str = <<>> THEN <<".">>
    ELSE LET absolute == str[1] = Sep
             trailing == str[Len(str)] = Sep
             body == Join(NormalizeParts(Split(str), 1, absolute, <<>>), <<Sep>>)
         IN  IF body = <<>>
             THEN IF absolute THEN <<Sep>>
                  ELSE IF trailing THEN <<".", Sep>> ELSE <<".">>
             ELSE (IF absolute THEN <<Sep>> ELSE <<>>) \o body
                  \o (IF trailing THEN <<Sep>> ELSE <<>>)

NonEmpty(part) == part # <<>>

\* ppath.join: the arguments that are not empty, joined by the separator
\* and normalized; "." when nothing is left.
PathJoin(parts) ==
    LET joined == Join(SelectSeq(parts, NonEmpty), <<Sep>>)
    IN  IF joined = <<>> THEN <<".">> ELSE Normalize(joined)

\* segment[0] !== "_": the empty segment has no first character and is kept.
KeepSegment(segment) == segment = <<>> \/ segment[1] # "_"

calculateOutputPath(str) ==
    <<Sep>> \o PathJoin(SelectSeq(Split(Normalize(str)), KeepSegment))

InitPath ==
    /\ filePath \in AbsolutePaths
    /\ newPath = NoResult

IdlePath ==
    /\ filePath = <<>>
    /\ newPath = NoResult

CalculateOutputPathCall ==
    /\ pc = "path"
    /\ newPath' = calculateOutputPath(filePath)
    /\ pc' = "pathReturned"
    /\ UNCHANGED filePath

(***************************************************************************)
(* highlightText calls in flight together on one Highlighter               *)
(***************************************************************************)

NumCalls == 2

Calls == 1 .. NumCalls

\* The snippets of the calls: one line, and the same line twice.
CallTexts == { << <<"<", " ">> >>, << <<"<", " ">>, <<"<", " ">> >> }

\* A grammar as the registry holds it: the rule stack it enters at a line
\* with "<", and whether it returns one token for each character.
Grammars == [open : RuleStacks, perChar : BOOLEAN]

\* grammar.tokenizeLine(line, ruleStack).tokens
GrammarFull(g, str) ==
    IF g.perChar
    THEN [j \in 1 .. Len(str) |-> [startIndex |-> j - 1, endIndex |-> j]]
    ELSE <<[startIndex |-> 0, endIndex |-> Len(str)]>>

\* The rule stack both tokenizer calls return for a line.
GrammarNext(g, str, state) ==
    IF \E j \in 1 .. Len(str) : str[j] = "<" THEN g.open
    ELSE IF state = INITIAL THEN 1 ELSE state

\* The word grammar.tokenizeLine2(line, ruleStack) packs for the line: a
\* foreground of the theme, in bold inside the rule stack the grammar enters.
GrammarWord(g, table, rawTheme, state) ==
    MetaWord(CHOOSE id \in ForegroundIds(table, rawTheme) : TRUE,
             IF state = g.open THEN FontStyleBold ELSE 0)

\* A theme whose editor foreground and only rule name one colour.
ConcurrentThemes == { ThemeOf(Color1, <<Color1Upper>>) }

InitConcurrent ==
    /\ grammar \in Grammars
    /\ callTexts \in [Calls -> CallTexts]
    /\ callState = [c \in Calls |-> "new"]
    /\ results = [c \in Calls |-> NoResult]
    /\ overtaken = {}

IdleConcurrent ==
    /\ grammar = NoResult
    /\ callTexts = <<>>
    /\ callState = <<>>
    /\ results = <<>>
    /\ overtaken = {}

\* highlightText(text, language) is called while no call is running: it
\* runs up to its await of registry.loadGrammar(language) and is suspended.
CallHighlightText(c) ==
    /\ pc \in {"loaded", "returned"}
    /\ callState[c] = "new"
    /\ callState' = [callState EXCEPT ![c] = "waiting"]
    /\ UNCHANGED <<pc, grammar, callTexts, results, overtaken, highlightVars>>

\* A suspended call is resumed with the grammar; its locals are new.
ResumeCall(c) ==
    /\ pc \in {"loaded", "returned"}
    /\ callState[c] = "waiting"
    /\ callState' = [callState EXCEPT ![c] = "running"]
    /\ text' = callTexts[c]
    /\ ruleStack' = StartRuleStack
    /\ output' = <<>>
    /\ lineIndex' = 0
    /\ binary' = NoResult
    /\ full' = NoResult
    /\ html' = NoResult
    /\ calls' = <<>>
    /\ pc' = "lines"
    /\ UNCHANGED <<grammar, callTexts, results, overtaken, language>>

\* One turn of the loop of the running call, with the registry's grammar.
HighlightLineOfCall ==
    /\ \E c \in Calls : callState[c] = "running"
    /\ HighlightLineWith({GrammarWord(grammar, colorMap,
                                      convertThemeToRawTheme(themeFile), ruleStack)})
    /\ full' = GrammarFull(grammar, text[lineIndex + 1])
    /\ Len(binary'.tokens) = 2
    /\ binary'.ruleStack = GrammarNext(grammar, text[lineIndex + 1], ruleStack)
    /\ UNCHANGED concurrentVars

\* The running call returns its string to its caller.
ReturnOfCall(c) ==
    /\ callState[c] = "running"
    /\ HighlightReturn
    /\ callState' = [callState EXCEPT ![c] = "returned"]
    /\ results' = [results EXCEPT ![c] = html']
    /\ overtaken' = overtaken \cup { d \in Calls : callState[d] = "waiting" }
    /\ UNCHANGED <<grammar, callTexts>>

(***************************************************************************)
(* Generator.run and Generator.watch                                       *)
(***************************************************************************)

NumPosts == 2
NumRuns == 2

Posts == 1 .. NumPosts
Runs == 1 .. NumRuns

\* The theme file before and after an edit: two themes without editor
\* foreground whose rules name different colours.
GeneratorThemes ==
    { ThemeOf(UndefinedValue, <<Color1>>), ThemeOf(UndefinedValue, <<Color2>>) }

PostsOfRuns == { <<r, p>> : r \in DOMAIN plan, p \in Posts }

\* No highlightText loop has read the theme state.
NoRead ==
    [by |-> 0, load |-> 0, classNameMap |-> UndefinedValue, colorMap |-> UndefinedValue]

InitGenerator(plans) ==
    /\ plan \in plans
    /\ broken \in SUBSET UNION { plan[r] : r \in DOMAIN plan }
    /\ runPc = [r \in DOMAIN plan |-> "idle"]
    /\ postState = [rp \in PostsOfRuns |-> "pending"]
    /\ renderedPosts = {}
    /\ written = {}
    /\ loadedBy = 0
    /\ lastRead = NoRead

IdleGenerator ==
    /\ plan = <<>>
    /\ broken = {}
    /\ runPc = <<>>
    /\ postState = <<>>
    /\ renderedPosts = {}
    /\ written = {}
    /\ loadedBy = 0
    /\ lastRead = NoRead

\* The theme file is edited while the site is watched.
ThemeFileEdited ==
    /\ themeFile' \in GeneratorThemes \ {themeFile}
    /\ UNCHANGED <<classNameMap, colorMap, generatorVars>>

\* run() is called, by the command line or by the debounced handler of
\* watch(): it awaits loadHighlighterTheme(), which awaits the theme file.
RunCall(r) ==
    /\ runPc[r] = "idle"
    /\ runPc' = [runPc EXCEPT ![r] = "loadTheme"]
    /\ UNCHANGED <<themeVars, plan, broken, postState, renderedPosts, written,
                   loadedBy, lastRead>>

\* Highlighter.loadTheme resumes with the theme read and makes its three
\* assignments without a suspension between them.
RunThemeLoaded(r) ==
    /\ runPc[r] = "loadTheme"
    /\ classNameMap' = createClassNameMap(themeFile)
    /\ colorMap' \in ColorTables(convertThemeToRawTheme(themeFile))
    /\ loadedBy' = r
    /\ runPc' = [runPc EXCEPT ![r] = "themeLoaded"]
    /\ UNCHANGED <<themeFile, plan, broken, postState, renderedPosts, written, lastRead>>

\* The theme file cannot be read: loadTheme rejects and run() catches.
RunThemeRejected(r) ==
    /\ runPc[r] = "loadTheme"
    /\ runPc' = [runPc EXCEPT ![r] = "failed"]
    /\ UNCHANGED <<themeVars, plan, broken, postState, renderedPosts, written,
                   loadedBy, lastRead>>

\* A run that goes on to the posts without its theme load being over.
ThemeNotAwaited(r) == runPc[r] \in {"loadTheme", "themeLoaded"}

\* await this.loadHighlighterTheme() is over for run r.
ThemeAwaited(r) == runPc[r] = "themeLoaded"

\* run() goes on to Promise.all(postPaths.map(renderMarkdownFile)): every
\* renderMarkdownFile is called and waits for fs.readFile.
RunRender(r) ==
    /\ ThemeAwaited(r)
    /\ runPc' = [runPc EXCEPT ![r] = "render"]
    /\ postState' = [rp \in PostsOfRuns |->
                        IF rp[1] = r /\ rp[2] \in plan[r] THEN "reading"
                        ELSE postState[rp]]
    /\ UNCHANGED <<themeVars, plan, broken, renderedPosts, written, loadedBy, lastRead>>

\* renderMarkdownFile resumes with the file, reaches the code block and
\* calls highlightText, which waits for registry.loadGrammar.
PostRead(r, p) ==
    /\ postState[<<r, p>>] = "reading"
    /\ postState' = [postState EXCEPT ![<<r, p>>] = "grammar"]
    /\ UNCHANGED <<themeVars, plan, broken, runPc, renderedPosts, written,
                   loadedBy, lastRead>>

\* highlightText resumes with the grammar: its loop reads classNameMap and
\* colorMap, it returns, and renderMarkdownFile sets renderedPosts.
PostHighlighted(r, p) ==
    /\ postState[<<r, p>>] = "grammar"
    /\ p \notin broken
    /\ lastRead' = [by |-> r, load |-> loadedBy,
                    classNameMap |-> classNameMap, colorMap |-> colorMap]
    /\ postState' = [postState EXCEPT ![<<r, p>>] = "rendered"]
    /\ renderedPosts' = renderedPosts \cup {p}
    /\ UNCHANGED <<themeVars, plan, broken, runPc, written, loadedBy>>

\* registry.loadGrammar rejects: highlightText and renderMarkdownFile reject.
PostRejected(r, p) ==
    /\ postState[<<r, p>>] = "grammar"
    /\ p \in broken
    /\ postState' = [postState EXCEPT ![<<r, p>>] = "rejected"]
    /\ UNCHANGED <<themeVars, plan, broken, runPc, renderedPosts, written,
                   loadedBy, lastRead>>

\* Promise.all of the renderMarkdownFile calls is fulfilled: run() goes
\* through renderFile, copyAssets, formatHtml and writeFile for every post.
RunWrite(r) ==
    /\ runPc[r] = "render"
    /\ \A p \in plan[r] : postState[<<r, p>>] = "rendered"
    /\ written' = written \cup { <<r, p>> : p \in plan[r] }
    /\ runPc' = [runPc EXCEPT ![r] = "done"]
    /\ UNCHANGED <<themeVars, plan, broken, postState, renderedPosts, loadedBy, lastRead>>

\* Promise.all rejects with the first renderMarkdownFile that rejects: the
\* catch of run() logs the error and run() is over; the other
\* renderMarkdownFile calls go on.
RunCatch(r) ==
    /\ runPc[r] = "render"
    /\ \E p \in plan[r] : postState[<<r, p>>] = "rejected"
    /\ runPc' = [runPc EXCEPT ![r] = "failed"]
    /\ UNCHANGED <<themeVars, plan, broken, postState, renderedPosts, written,
                   loadedBy, lastRead>>

IdleOther ==
    /\ IdleRemerge
    /\ IdlePath
    /\ IdleConcurrent
    /\ IdleGenerator

(***************************************************************************)
(* Specifications of the pure functions                                    *)
(***************************************************************************)

InitSpecDecode ==
    /\ IdleOther
    /\ IdleHighlight
    /\ pc = "decode"
    /\ InitDecode
    /\ IdleLookup
    /\ IdleTheme
    /\ IdleResolve
    /\ IdleRender

NextSpecDecode ==
    Decode /\ UNCHANGED <<lookupVars, themeVars, resolveVars, renderVars, highlightVars, otherVars>>

SpecDecode == InitSpecDecode /\ [][NextSpecDecode]_vars

InitSpecLookup ==
    /\ IdleOther
    /\ IdleHighlight
    /\ pc = "lookup"
    /\ InitLookup
    /\ IdleDecode
    /\ IdleTheme
    /\ IdleResolve
    /\ IdleRender

NextSpecLookup ==
    Lookup /\ UNCHANGED <<decodeVars, themeVars, resolveVars, renderVars, highlightVars, otherVars>>

SpecLookup == InitSpecLookup /\ [][NextSpecLookup]_vars

InitSpecTheme ==
    /\ IdleOther
    /\ IdleHighlight
    /\ pc = "idle"
    /\ InitTheme(Themes)
    /\ IdleDecode
    /\ IdleLookup
    /\ IdleResolve
    /\ IdleRender

NextSpecTheme ==
    \/ LoadThemeCall /\ UNCHANGED <<decodeVars, lookupVars, resolveVars, renderVars, highlightVars, otherVars>>
    \/ LoadThemeResume /\ UNCHANGED <<decodeVars, lookupVars, resolveVars, renderVars, highlightVars, otherVars>>

SpecTheme == InitSpecTheme /\ [][NextSpecTheme]_vars

InitSpecResolve ==
    /\ IdleOther
    /\ IdleHighlight
    /\ pc = "idle"
    /\ InitResolve
    /\ IdleDecode
    /\ IdleLookup
    /\ IdleTheme
    /\ IdleRender

NextSpecResolve ==
    SyntaxNameCall /\ UNCHANGED <<decodeVars, lookupVars, themeVars, renderVars, highlightVars, otherVars>>

SpecResolve == InitSpecResolve /\ [][NextSpecResolve]_vars

InitSpecMerge ==
    /\ IdleOther
    /\ IdleHighlight
    /\ pc = "merge"
    /\ InitRender(MaxSegments, MaxSegmentEnd, {<<>>}, ClassLists)
    /\ IdleDecode
    /\ IdleLookup
    /\ IdleTheme
    /\ IdleResolve

NextSpecMerge ==
    \/ MergeIteration /\ UNCHANGED <<decodeVars, lookupVars, themeVars, resolveVars, highlightVars, otherVars>>
    \/ MergeReturn /\ UNCHANGED <<decodeVars, lookupVars, themeVars, resolveVars, highlightVars, otherVars>>

SpecMerge == InitSpecMerge /\ [][NextSpecMerge]_vars

InitSpecRender ==
    /\ IdleOther
    /\ IdleHighlight
    /\ pc = "render"
    /\ InitRender(MaxRenderSegments, MaxLineLen, Lines, RenderClassLists)
    /\ IdleDecode
    /\ IdleLookup
    /\ IdleTheme
    /\ IdleResolve

NextSpecRender ==
    Render /\ UNCHANGED <<decodeVars, lookupVars, themeVars, resolveVars, highlightVars, otherVars>>

SpecRender == InitSpecRender /\ [][NextSpecRender]_vars

InitSpecRemerge ==
    /\ pc = "remerge"
    /\ InitRemerge
    /\ IdlePath
    /\ IdleConcurrent
    /\ IdleGenerator
    /\ line = <<>>
    /\ mergedSegments = <<>>
    /\ previousSegment = Null
    /\ visited = 0
    /\ highlightedLine = NoResult
    /\ IdleHighlight
    /\ IdleDecode
    /\ IdleLookup
    /\ IdleTheme
    /\ IdleResolve

NextSpecRemerge ==
    \/ MergeOnce
        /\ UNCHANGED <<decodeVars, lookupVars, themeVars, resolveVars, highlightVars, pathVars, concurrentVars, generatorVars>>
    \/ MergeTwice
        /\ UNCHANGED <<decodeVars, lookupVars, themeVars, resolveVars, highlightVars, pathVars, concurrentVars, generatorVars>>

SpecRemerge == InitSpecRemerge /\ [][NextSpecRemerge]_vars

InitSpecPath ==
    /\ pc = "path"
    /\ InitPath
    /\ IdleRemerge
    /\ IdleConcurrent
    /\ IdleGenerator
    /\ IdleRender
    /\ IdleHighlight
    /\ IdleDecode
    /\ IdleLookup
    /\ IdleTheme
    /\ IdleResolve

NextSpecPath ==
    CalculateOutputPathCall
        /\ UNCHANGED <<decodeVars, lookupVars, themeVars, resolveVars, renderVars,
                       highlightVars, remergeVars, concurrentVars, generatorVars>>

SpecPath == InitSpecPath /\ [][NextSpecPath]_vars

\* The Highlighter as its caller drives it: the theme is loaded, then
\* snippets are highlighted one after the other.
Init ==
    /\ IdleOther
    /\ pc = "idle"
    /\ InitTheme(HighlightThemes)
    /\ InitHighlight(Texts)
    /\ IdleDecode
    /\ IdleLookup
    /\ IdleResolve
    /\ IdleRender

Next ==
    \/ LoadThemeCall
        /\ UNCHANGED <<decodeVars, lookupVars, resolveVars, renderVars, highlightVars, otherVars>>
    \/ LoadThemeResume
        /\ UNCHANGED <<decodeVars, lookupVars, resolveVars, renderVars, highlightVars, otherVars>>
    \/ HighlightCall
        /\ UNCHANGED <<decodeVars, lookupVars, themeVars, resolveVars, renderVars, otherVars>>
    \/ GrammarLoaded
        /\ UNCHANGED <<decodeVars, lookupVars, themeVars, resolveVars, renderVars, otherVars>>
    \/ HighlightLine
        /\ UNCHANGED <<decodeVars, lookupVars, themeVars, resolveVars, renderVars, otherVars>>
    \/ HighlightReturn
        /\ UNCHANGED <<decodeVars, lookupVars, themeVars, resolveVars, renderVars, otherVars>>

Spec == Init /\ [][Next]_vars

\* The Highlighter with snippets of one line and a tokenizer whose foreground
\* ids are not bound to the theme.
InitSpecAnyForeground ==
    /\ IdleOther
    /\ pc = "idle"
    /\ InitTheme(HighlightThemes)
    /\ InitHighlight({ <<str>> : str \in SampleLines })
    /\ IdleDecode
    /\ IdleLookup
    /\ IdleResolve
    /\ IdleRender

NextSpecAnyForeground ==
    \/ LoadThemeCall
        /\ UNCHANGED <<decodeVars, lookupVars, resolveVars, renderVars, highlightVars, otherVars>>
    \/ LoadThemeResume
        /\ UNCHANGED <<decodeVars, lookupVars, resolveVars, renderVars, highlightVars, otherVars>>
    \/ HighlightCall
        /\ UNCHANGED <<decodeVars, lookupVars, themeVars, resolveVars, renderVars, otherVars>>
    \/ GrammarLoaded
        /\ UNCHANGED <<decodeVars, lookupVars, themeVars, resolveVars, renderVars, otherVars>>
    \/ HighlightLineAnyForeground
        /\ UNCHANGED <<decodeVars, lookupVars, themeVars, resolveVars, renderVars, otherVars>>
    \/ HighlightReturn
        /\ UNCHANGED <<decodeVars, lookupVars, themeVars, resolveVars, renderVars, otherVars>>

SpecAnyForeground == InitSpecAnyForeground /\ [][NextSpecAnyForeground]_vars

\* One Highlighter with its theme loaded and NumCalls calls of highlightText
\* that may be in flight together.
InitSpecConcurrent ==
    /\ IdleRemerge
    /\ IdlePath
    /\ InitConcurrent
    /\ IdleGenerator
    /\ pc = "idle"
    /\ InitTheme(ConcurrentThemes)
    /\ IdleHighlight
    /\ IdleDecode
    /\ IdleLookup
    /\ IdleResolve
    /\ IdleRender

NextSpecConcurrent ==
    \/ LoadThemeCall
        /\ UNCHANGED <<decodeVars, lookupVars, resolveVars, renderVars, highlightVars, otherVars>>
    \/ LoadThemeResume
        /\ UNCHANGED <<decodeVars, lookupVars, resolveVars, renderVars, highlightVars, otherVars>>
    \/ \E c \in Calls : CallHighlightText(c)
        /\ UNCHANGED <<decodeVars, lookupVars, themeVars, resolveVars, renderVars,
                       remergeVars, pathVars, generatorVars>>
    \/ \E c \in Calls : ResumeCall(c)
        /\ UNCHANGED <<decodeVars, lookupVars, themeVars, resolveVars, renderVars,
                       remergeVars, pathVars, generatorVars>>
    \/ HighlightLineOfCall
        /\ UNCHANGED <<decodeVars, lookupVars, themeVars, resolveVars, renderVars,
                       remergeVars, pathVars, generatorVars>>
    \/ \E c \in Calls : ReturnOfCall(c)
        /\ UNCHANGED <<decodeVars, lookupVars, themeVars, resolveVars, renderVars,
                       remergeVars, pathVars, generatorVars>>

SpecConcurrent == InitSpecConcurrent /\ [][NextSpecConcurrent]_vars

InitGeneratorRest ==
    /\ IdleRemerge
    /\ IdlePath
    /\ IdleConcurrent
    /\ pc = "generator"
    /\ InitTheme(GeneratorThemes)
    /\ IdleHighlight
    /\ IdleDecode
    /\ IdleLookup
    /\ IdleResolve
    /\ IdleRender

\* One run() of the Generator over NumPosts posts.
InitSpecGenerator ==
    /\ InitGenerator({ [r \in {1} |-> Posts] })
    /\ InitGeneratorRest

\* The Generator in watch mode: NumRuns runs that may overlap, of one post.
InitSpecWatch ==
    /\ InitGenerator({ [r \in Runs |-> {1}] })
    /\ InitGeneratorRest

outsideGenerator ==
    <<pc, decodeVars, lookupVars, resolveVars, renderVars, highlightVars,
      remergeVars, pathVars, concurrentVars>>

NextSpecGenerator ==
    \/ ThemeFileEdited /\ UNCHANGED outsideGenerator
    \/ \E r \in DOMAIN plan : RunCall(r) /\ UNCHANGED outsideGenerator
    \/ \E r \in DOMAIN plan : RunThemeLoaded(r) /\ UNCHANGED outsideGenerator
    \/ \E r \in DOMAIN plan : RunThemeRejected(r) /\ UNCHANGED outsideGenerator
    \/ \E r \in DOMAIN plan : RunRender(r) /\ UNCHANGED outsideGenerator
    \/ \E r \in DOMAIN plan, p \in Posts : PostRead(r, p) /\ UNCHANGED outsideGenerator
    \/ \E r \in DOMAIN plan, p \in Posts : PostHighlighted(r, p) /\ UNCHANGED outsideGenerator
    \/ \E r \in DOMAIN plan, p \in Posts : PostRejected(r, p) /\ UNCHANGED outsideGenerator
    \/ \E r \in DOMAIN plan : RunWrite(r) /\ UNCHANGED outsideGenerator
    \/ \E r \in DOMAIN plan : RunCatch(r) /\ UNCHANGED outsideGenerator

SpecGenerator == InitSpecGenerator /\ [][NextSpecGenerator]_vars

SpecWatch == InitSpecWatch /\ [][NextSpecGenerator]_vars

(***************************************************************************)
(* Claims                                                                  *)
(***************************************************************************)

PairCount == Len(tokens) \div 2
PairOffset(j) == tokens[2 * j - 1]
PairMeta(j) == tokens[2 * j]

\* The pairs whose interval [offset, next offset) holds the position.
Holding ==
    { j \in 1 .. PairCount - 1 :
        PairOffset(j) <= position /\ position < PairOffset(j + 1) }

\* C2: the lookup returns the metadata of the pair whose interval
\* [offset, next offset) holds the position, and the last packed value of the
\* stream when no interval does.
C2_LookupInterval ==
    (pc = "looked" /\ PairCount > 0) =>
        /\ \A j \in Holding : meta = PairMeta(j)
        /\ Holding = {} => meta = PairMeta(PairCount)

C2_Witness ==
    /\ pc = "looked"
    /\ PairCount = 3
    /\ Holding = {2}
    /\ meta = PairMeta(2)
    /\ meta # PairMeta(3)
    /\ meta # PairMeta(1)

\* C3: a segment is merged into the accumulator exactly when the
\* accumulator ends where the segment starts and both have the same class
\* names; a merge only moves the accumulator's end to the segment's end, and
\* a segment that is not merged is appended and becomes the accumulator.
C3_MergeRule ==
    [][ visited' = visited + 1 =>
            LET segment == segments[visited + 1]
                merges ==
                    /\ previousSegment # Null
                    /\ segments[previousSegment].end = segment.start
                    /\ segments[previousSegment].classNames = segment.classNames
            IN  IF merges
                THEN /\ mergedSegments' = mergedSegments
                     /\ previousSegment' = previousSegment
                     /\ segments' =
                            [segments EXCEPT ![previousSegment].end = segment.end]
                ELSE /\ mergedSegments' = Append(mergedSegments, visited + 1)
                     /\ previousSegment' = visited + 1
                     /\ segments' = segments
      ]_vars

\* Three segments: the second merged into the first, the third contiguous
\* but of other class names and kept apart.
C3_Witness ==
    /\ pc = "merged"
    /\ Len(segments) = 3
    /\ mergedSegments = <<1, 3>>
    /\ segments[1].start = 0
    /\ segments[1].end = 2
    /\ segments[2].start = 1
    /\ segments[3].start = 2
    /\ segments[3].classNames # segments[1].classNames

\* Where the spans of the rendered line open, and the class attribute of
\* the span opening at p.
SpanStarts == { p \in 1 .. Len(highlightedLine) : highlightedLine[p] = SpanOpen }

ClassAttribute(p) ==
    LET close == CHOOSE q \in p + 1 .. Len(highlightedLine) :
                    /\ highlightedLine[q] = AttrClose
                    /\ \A r \in p + 1 .. q - 1 : highlightedLine[r] # AttrClose
    IN  SubSeq(highlightedLine, p + 1, close - 1)

\* Spans with no other span between them.
AdjacentSpans ==
    { pq \in SpanStarts \X SpanStarts :
        /\ pq[1] < pq[2]
        /\ \A r \in SpanStarts : ~(pq[1] < r /\ r < pq[2]) }

\* C4 as claimed: no two adjacent spans of the rendered line have the same
\* class attribute, whatever lies between them.
C4_NoAdjacentEqualSpans ==
    pc = "rendered" =>
        \A pq \in AdjacentSpans : ClassAttribute(pq[1]) # ClassAttribute(pq[2])

MergedSegment(j) == segments[mergedSegments[j]]

\* Every merged segment is emitted as a span and ends where the next starts.
SpansTile ==
    /\ \A j \in 1 .. Len(mergedSegments) :
            \E c \in MergedSegment(j).start + 1 .. MergedSegment(j).end :
                c <= Len(line) /\ line[c] \notin WhiteSpace
    /\ \A j \in 1 .. Len(mergedSegments) - 1 :
            MergedSegment(j).end = MergedSegment(j + 1).start

\* C4 as amended: two consecutive segments of the merged sequence that are
\* end-to-start contiguous differ in their class names, hence in the class
\* attribute of the spans emitted for them; when every merged segment is
\* emitted as a span and ends where the next starts, no two adjacent spans
\* of the rendered line have the same class attribute.
C4_ContiguousSpansDiffer ==
    pc = "rendered" =>
        /\ \A j \in 1 .. Len(mergedSegments) - 1 :
                MergedSegment(j).end = MergedSegment(j + 1).start =>
                    /\ MergedSegment(j).classNames # MergedSegment(j + 1).classNames
                    /\ Join(MergedSegment(j).classNames, <<" ">>)
                            # Join(MergedSegment(j + 1).classNames, <<" ">>)
        /\ SpansTile =>
                \A pq \in AdjacentSpans :
                    ClassAttribute(pq[1]) # ClassAttribute(pq[2])

\* Two contiguous segments of different class names, both emitted as spans.
C4_Witness ==
    /\ pc = "rendered"
    /\ Len(mergedSegments) = 2
    /\ MergedSegment(1).end = MergedSegment(2).start
    /\ Cardinality(SpanStarts) = 2
    /\ \E pq \in AdjacentSpans : pq[2] = pq[1] + Len(ClassAttribute(pq[1])) + 4

\* The text of a merged segment, and whether it has a character that is
\* not white space.
SegmentText(j) ==
    LET from == IF MergedSegment(j).start < Len(line)
                THEN MergedSegment(j).start ELSE Len(line)
        to == IF MergedSegment(j).end < Len(line)
              THEN MergedSegment(j).end ELSE Len(line)
    IN  [c \in 1 .. (IF to > from THEN to - from ELSE 0) |-> line[from + c]]

HasInk(txt) == \E c \in 1 .. Len(txt) : txt[c] \notin {" ", "\t", "\n"}

ClassNamesWithSpaces(names) ==
    [c \in 1 .. (IF Len(names) = 0 THEN 0 ELSE 2 * Len(names) - 1) |->
        IF c % 2 = 1 THEN names[(c + 1) \div 2] ELSE <<" ">>]

RECURSIVE Flatten(_)
Flatten(seqs) == IF seqs = <<>> THEN <<>> ELSE Head(seqs) \o Flatten(Tail(seqs))

Escaped(c) ==
    IF c = "<" THEN "&lt;" ELSE IF c = ">" THEN "&gt;"
    ELSE IF c = "&" THEN "&amp;" ELSE IF c = "\"" THEN "&quot;" ELSE c

ExpectedPiece(j) ==
    LET txt == SegmentText(j)
    IN  IF HasInk(txt)
        THEN <<SpanOpen>> \o Flatten(ClassNamesWithSpaces(MergedSegment(j).classNames))
             \o <<AttrClose>> \o [c \in 1 .. Len(txt) |-> Escaped(txt[c])]
             \o <<SpanClose>>
        ELSE txt

\* C5: the rendered line is, segment by merged segment, the text of the
\* segment as it stands when it is empty or white space only, and otherwise
\* one span whose class attribute is the class names joined by single spaces
\* and whose content is the escaped text.
C5_Emission ==
    pc = "rendered" =>
        highlightedLine
            = Flatten([j \in 1 .. Len(mergedSegments) |-> ExpectedPiece(j)])

\* A line rendered to white space as it stands followed by one span of two
\* class names around an escaped character.
C5_Witness ==
    /\ pc = "rendered"
    /\ line = <<" ", "<">>
    /\ Len(mergedSegments) = 2
    /\ highlightedLine
        = <<" ", SpanOpen, "mtk", "1", " ", "mtkb", AttrClose, "&lt;", SpanClose>>

\* The foregrounds createClassNameMap walks, in order, upper-cased, without
\* the missing and the empty ones.
ThemeForegroundList ==
    LET all == <<Nullish(Get(themeFile.colors, <<"editor.foreground">>),
                         DefaultForeground)>>
               \o [k \in 1 .. Len(themeFile.tokenColors) |->
                      themeFile.tokenColors[k].settings.foreground]
    IN  SelectSeq([k \in 1 .. Len(all) |->
                      IF all[k] = UndefinedValue THEN <<>> ELSE toUpperCase(all[k])],
                  LAMBDA c : c # <<>>)

FirstOccurrence(list, c) ==
    CHOOSE k \in 1 .. Len(list) :
        list[k] = c /\ \A j \in 1 .. k - 1 : list[j] # c

C8_DecodeFields ==
    pc = "decoded" =>
        /\ decoded.foreground = packed.foreground
        /\ decoded.italic = (packed.fontStyle % 2 = 1)
        /\ decoded.bold = ((packed.fontStyle \div 2) % 2 = 1)
        /\ decoded.underline = ((packed.fontStyle \div 4) % 2 = 1)

C8_Witness ==
    /\ pc = "decoded"
    /\ packed.foreground = 511
    /\ packed.background = 511
    /\ packed.language = 255
    /\ packed.fontStyle = 5
    /\ decoded.foreground = 511
    /\ decoded.italic /\ decoded.underline /\ ~decoded.bold

\* C9: a call returns the table's grammar id for a tag of the table; for
\* any other tag that is not empty the plain-text grammar id, with exactly
\* one diagnostic that holds the tag; for the empty tag the plain-text
\* grammar id with no diagnostic; and always one of the fixed grammar ids.
C9_Resolve ==
    [][ tag' # UndefinedValue /\ <<tag, grammarKey, console>>' # <<tag, grammarKey, console>> =>
            /\ tag' \in DOMAIN extensionToGrammarKey =>
                    grammarKey' = extensionToGrammarKey[tag']
            /\ (tag' \notin DOMAIN extensionToGrammarKey /\ tag' # <<>>) =>
                    /\ grammarKey' = GrammarKeyTEXT
                    /\ Len(console') = Len(console) + 1
                    /\ \E c \in 1 .. Len(console'[Len(console')]) :
                            <<console'[Len(console')][c]>> = tag'
            /\ tag' = <<>> =>
                    /\ grammarKey' = GrammarKeyTEXT
                    /\ console' = console
            /\ grammarKey' \in GrammarKeys
      ]_vars

\* C1: the tokenizer calls of a highlightText come in pairs, one pair a
\* line, in increasing line order; both calls of a pair get the same line
\* and the same state; the state of the first line is INITIAL in every
\* highlightText, and the state of each later line is the one tokenizeLine2
\* returned for the line before; a call that returned made one pair for
\* every line.
C1_LineOrderAndState ==
    /\ Len(calls) = 2 * lineIndex
    /\ pc = "returned" => lineIndex = Len(text)
    /\ \A i \in 0 .. lineIndex - 1 :
            LET packedCall == calls[2 * i + 1]
                offsetCall == calls[2 * i + 2]
            IN  /\ packedCall.fn = "tokenizeLine2"
                /\ offsetCall.fn = "tokenizeLine"
                /\ packedCall.line = i
                /\ offsetCall.line = i
                /\ offsetCall.state = packedCall.state
                /\ packedCall.state
                        = IF i = 0 THEN INITIAL ELSE calls[2 * i - 1].returned

\* A second line tokenized from the state the first line's tokenizeLine2
\* returned, which is not INITIAL.
C1_Witness ==
    /\ pc = "lines"
    /\ lineIndex = 2
    /\ calls[1].state = INITIAL
    /\ calls[1].returned # INITIAL
    /\ calls[3].state = calls[1].returned
    /\ calls[4].state = calls[1].returned

\* The text a rendered line shows: what is left without the tags.
RECURSIVE Visible(_, _)
Visible(h, inTag) ==
    IF h = <<>> THEN <<>>
    ELSE IF Head(h) = SpanOpen THEN Visible(Tail(h), TRUE)
    ELSE IF Head(h) = AttrClose THEN Visible(Tail(h), FALSE)
    ELSE IF inTag \/ Head(h) = SpanClose THEN Visible(Tail(h), inTag)
    ELSE <<Head(h)>> \o Visible(Tail(h), inTag)

\* C6: the string returned is "<pre><code>", the rendered lines in input
\* order with one newline between two consecutive lines and none before the
\* first or after the last, and "</code></pre>"; there is one rendered line for
\* each input line, showing that line's text; no line gives
\* "<pre><code></code></pre>".
C6_Document ==
    pc = "returned" =>
        /\ Len(output) = Len(text)
        /\ \A j \in 1 .. Len(text) :
                Visible(output[j], FALSE)
                    = [c \in 1 .. Len(text[j]) |-> Escaped(text[j][c])]
        /\ html = <<PreOpen>>
                  \o Flatten([j \in 1 .. Len(output) |->
                                IF j = 1 THEN output[j] ELSE <<"\n">> \o output[j]])
                  \o <<PreClose>>
        /\ Len(text) = 0 => html = <<PreOpen, PreClose>>

\* Two lines, the second empty: one newline, after the first line.
C6_Witness ==
    /\ pc = "returned"
    /\ text = << <<"<", " ">>, <<>> >>
    /\ Len(html) = Len(output[1]) + 3
    /\ html[Len(html) - 1] = "\n"
    /\ output[1][1] = SpanOpen

\* The markup of a rendered line h: whether position q is inside a class
\* attribute, the positions of the text, and the span that holds q.
LastMarker(h, q, markers) ==
    LET before == { r \in 1 .. q - 1 : h[r] \in markers }
    IN  IF before = {} THEN 0
        ELSE CHOOSE r \in before : \A r2 \in before : r2 <= r

InAttribute(h, q) ==
    LET r == LastMarker(h, q, {SpanOpen, AttrClose})
    IN  r # 0 /\ h[r] = SpanOpen

TextPositions(h) ==
    { q \in 1 .. Len(h) :
        h[q] \notin {SpanOpen, AttrClose, SpanClose} /\ ~InAttribute(h, q) }

TextPosition(h, c) ==
    CHOOSE q \in TextPositions(h) :
        Cardinality({ r \in TextPositions(h) : r < q }) = c - 1

InSpan(h, q) ==
    LET r == LastMarker(h, q, {AttrClose, SpanClose})
    IN  r # 0 /\ h[r] = AttrClose

\* The first class name of the span that holds position q.
SpanForegroundClass(h, q) ==
    LET open == LastMarker(h, q, {SpanOpen})
        stop == CHOOSE r \in open + 1 .. Len(h) :
                    /\ h[r] \in {" ", AttrClose}
                    /\ \A r2 \in open + 1 .. r - 1 : h[r2] \notin {" ", AttrClose}
    IN  SubSeq(h, open + 1, stop - 1)

\* The foreground id the latest packed stream holds for the character at
\* JavaScript index c of the latest line.
ForegroundIdAt(c) ==
    LET stream == binary.tokens
        n == Len(stream) \div 2
        pair == CHOOSE k \in 1 .. n :
                    /\ stream[2 * k - 1] <= c
                    /\ k < n => c < stream[2 * k + 1]
    IN  (stream[2 * pair] \div (2 ^ 14)) % 512

\* C10: for every character of the latest line that a span holds, the
\* colour the colour table has at the foreground id packed for it is a key
\* of the class-name map, and the first class of the span is the class name
\* the map holds for that colour.
C10_SpanForegroundClass ==
    (pc \in {"lines", "returned"} /\ lineIndex > 0) =>
        LET h == output[lineIndex]
            str == text[lineIndex]
        IN  /\ Cardinality(TextPositions(h)) = Len(str)
            /\ \A c \in 1 .. Len(str) :
                    InSpan(h, TextPosition(h, c)) =>
                        LET colour == colorMap[ForegroundIdAt(c - 1) + 1]
                        IN  \E k \in 1 .. Len(classNameMap) :
                                /\ classNameMap[k].key = colour
                                /\ classNameMap[k].value
                                    = SpanForegroundClass(h, TextPosition(h, c))

\* A line of one span and white space, under a colour table whose ids are
\* not the indices of the class names.
C10_Witness ==
    /\ pc = "lines"
    /\ lineIndex = 1
    /\ colorMap[2] = DefaultBackground
    /\ colorMap[3] = Color1Upper
    /\ output[1] = <<SpanOpen, "mtk", "1", " ", "mtkb", AttrClose, "&lt;", SpanClose, " ">>

\* C13 as claimed: codeToHTML leaves the array passed in as it was: the same
\* length and, segment by segment, the same start, end and class names.
C13_NoSideEffects ==
    [][ pc' = "rendered" =>
            /\ Len(segments') = Len(segments)
            /\ \A j \in 1 .. Len(segments) :
                    /\ segments'[j].start = segments[j].start
                    /\ segments'[j].end = segments[j].end
                    /\ segments'[j].classNames = segments[j].classNames
      ]_vars

\* C14: merging what a merge returned gives as many segments, each with the
\* same start, end and class names.
C14_MergeFixpoint ==
    pc = "twice" =>
        /\ Len(secondPass) = Len(firstPass)
        /\ \A j \in 1 .. Len(firstPass) :
                /\ secondPass[j].start = firstPass[j].start
                /\ secondPass[j].end = firstPass[j].end
                /\ secondPass[j].classNames = firstPass[j].classNames

\* Three segments of one class merged into one and a fourth kept apart, and
\* the second pass returns the same two.
C14_Witness ==
    /\ pc = "twice"
    /\ Len(segments) = 3
    /\ Len(firstPass) = 2
    /\ firstPass[1].start = 0
    /\ firstPass[1].end = 2
    /\ firstPass[2].start = 2
    /\ firstPass[2].classNames # firstPass[1].classNames
    /\ secondPass = firstPass

\* The segments tile the line str.
Tiles(segs, str) ==
    IF Len(segs) = 0 THEN Len(str) = 0
    ELSE /\ segs[1].start = 0
         /\ \A j \in 1 .. Len(segs) - 1 : segs[j + 1].start = segs[j].end
         /\ segs[Len(segs)].end = Len(str)

Unescaped(c) ==
    IF c = "&lt;" THEN "<" ELSE IF c = "&gt;" THEN ">"
    ELSE IF c = "&amp;" THEN "&" ELSE IF c = "&quot;" THEN "\"" ELSE c

\* C18: when the segments passed to codeToHTML tile the line, the texts it
\* emits (the contents of the spans before escaping, and the white space
\* left as it stands), taken in order, are the line.
C18_TilingKeepsText ==
    [][ (pc' = "rendered" /\ Tiles(segments, line)) =>
            LET shown == Visible(highlightedLine', FALSE)
            IN  [c \in 1 .. Len(shown) |-> Unescaped(shown[c])] = line
      ]_vars

\* A line tiled by two segments of different class names, the first with
\* white space at its end.
C18_Witness ==
    /\ pc = "rendered"
    /\ line = <<"<", " ", "a">>
    /\ Len(segments) = 2
    /\ segments[1].start = 0
    /\ segments[2].start = 2
    /\ segments[2].end = 3
    /\ highlightedLine
        = <<SpanOpen, "mtk", "0", AttrClose, "&lt;", " ", SpanClose,
            SpanOpen, "mtk", "1", " ", "mtkb", AttrClose, "a", SpanClose>>

\* The segments of an absolute path: what stands between its separators.
PathSegments(str) == IF Len(str) = 1 THEN <<>> ELSE Split(Tail(str))

\* An absolute path as the file system gives it: no empty segment, no "."
\* or ".." segment, no separator at its end.
IsResolved(str) ==
    \A j \in 1 .. Len(PathSegments(str)) :
        PathSegments(str)[j] \notin {<<>>, <<".">>, <<".", ".">>}

StartsWithUnderscore(segment) == segment # <<>> /\ segment[1] = "_"

KeptSegment(segment) == ~StartsWithUnderscore(segment)

C11_UnresolvedForegroundFails ==
    pc = "returned" =>
        \A j \in 1 .. Len(html) :
            html[j] = SpanOpen => (j < Len(html) /\ html[j + 1] = "mtk")

\* highlightText run on its own on the lines of txt from line j on, entered
\* in the rule stack state: the rendered lines.
RECURSIVE AloneFrom(_, _, _)
AloneFrom(txt, j, state) ==
    IF j > Len(txt) THEN <<>>
    ELSE LET word == GrammarWord(grammar, colorMap,
                                 convertThemeToRawTheme(themeFile), state)
             segs == LineSegments(classNameMap, colorMap, <<0, word>>,
                                  GrammarFull(grammar, txt[j]))
         IN  <<codeToHTML(txt[j], segs)>>
             \o AloneFrom(txt, j + 1, GrammarNext(grammar, txt[j], state))

Alone(txt) ==
    <<PreOpen>> \o Join(AloneFrom(txt, 1, INITIAL), <<"\n">>) \o <<PreClose>>

\* C12: every call of highlightText made while other calls on the same
\* Highlighter are suspended or have run returns the string it returns when
\* it is the only call, and the class name map stays the one the theme gave.
C12_CallsIsolated ==
    /\ \A c \in Calls :
            callState[c] = "returned" => results[c] = Alone(callTexts[c])
    /\ pc \in {"loaded", "lines", "returned"} =>
            classNameMap = createClassNameMap(themeFile)

\* While the first call was suspended the second ran and left the grammar's
\* rule stack behind; the first then returned two lines, the second of
\* them in bold.
C12_Witness ==
    /\ callState[1] = "returned"
    /\ callState[2] = "returned"
    /\ 1 \in overtaken
    /\ grammar.open = 2
    /\ ~grammar.perChar
    /\ callTexts[2] = << <<"<", " ">> >>
    /\ results[1]
        = <<PreOpen, SpanOpen, "mtk", "0", AttrClose, "&lt;", " ", SpanClose, "\n",
            SpanOpen, "mtk", "0", " ", "mtkb", AttrClose, "&lt;", " ", SpanClose,
            PreClose>>

\* C15 as claimed: when a highlightText call of a run() fails, the run goes
\* on: once the run is over and its renderMarkdownFile calls are settled,
\* every post whose renderMarkdownFile succeeded has its output written.
C15_BuildContinues ==
    \A r \in DOMAIN plan :
        ( /\ runPc[r] \in {"done", "failed"}
          /\ \A p \in plan[r] : postState[<<r, p>>] \in {"rendered", "rejected"} )
        => \A p \in plan[r] :
                postState[<<r, p>>] = "rendered" => <<r, p>> \in written

\* C17: whenever the loop of highlightText reads the theme state, a
\* loadTheme has completed: classNameMap and colorMap are defined, and they
\* are those of one theme, assigned by one load.
C17_ThemeLoadedAtRead ==
    lastRead.by # 0 =>
        /\ lastRead.classNameMap # UndefinedValue
        /\ lastRead.colorMap # UndefinedValue
        /\ lastRead.load \in DOMAIN plan
        /\ \E theme \in GeneratorThemes :
                /\ lastRead.classNameMap = createClassNameMap(theme)
                /\ lastRead.colorMap \in ColorTables(convertThemeToRawTheme(theme))

\* Two runs overlap: the first was still rendering when the second loaded
\* the edited theme, and the highlightText of the first read the state the
\* second assigned.
C17_Witness ==
    /\ lastRead.by = 1
    /\ lastRead.load = 2
    /\ runPc[1] = "render"
    /\ runPc[2] = "themeLoaded"
    /\ lastRead.classNameMap = createClassNameMap(ThemeOf(UndefinedValue, <<Color2>>))

====
